---- MODULE Spec2Model ----
(***************************************************************************)
(* web3_model: Contract (transaction building, signing + sending, gas      *)
(* estimation, calls) and the two fluent builders Caller and Sender of     *)
(* src/web3_model/contract.py, run against a chain client whose answers    *)
(* (gas price, transaction count, gas estimation, acceptance of a raw      *)
(* transaction) are the environment.                                       *)
(*                                                                         *)
(* Python values: an optional value is a sequence of length at most one    *)
(* (None is <<>>, a present value v is <<v>>); a str that is decoded is a  *)
(* sequence of one-character strings; bytes are a sequence of 0..255; a    *)
(* dict is a function from its keys.                                       *)
(***************************************************************************)
EXTENDS Integers, Sequences, FiniteSets, TLC

VARIABLES
    chain_id,        \* w3.eth.chain_id
    gas_price,       \* w3.eth.gas_price, the chain's suggested gas price
    tx_count,        \* w3.eth.get_transaction_count(wallet.address)
    estimator,       \* what w3.eth.estimate_gas answers: a value or an error
    builder,         \* the class of the builder the program constructed
    b_fn,            \* its _fn (Caller only)
    b_tx,            \* its _tx
    built,           \* history: the most recent completed build call on the builder
    sent,            \* history: the builder's current descriptor has been submitted
    last             \* history: the last operation, the client calls it made, its outcome

vars == <<chain_id, gas_price, tx_count, estimator, builder, b_fn, b_tx, built, sent, last>>

chain == <<chain_id, gas_price, tx_count, estimator>>
pending == <<b_fn, b_tx, built, sent>>

-----------------------------------------------------------------------------
(* Bounds and input sets *)

MaxTxCount == 2

DefaultGas == 210000

None == <<>>
Some(v) == <<v>>
Val(o) == o[1]

ChainIds == {1}
GasPrices == {0, 20}
TxCounts == {0, 1}
ClientErrors == {"execution reverted"}
SubmitErrors == {"nonce too low", "insufficient funds"}
Estimators == {[ok |-> TRUE, v |-> 21000]} \cup {[ok |-> FALSE, err |-> e] : e \in ClientErrors}
TxHashes == {<<161, 11>>}
Responses == {[accept |-> TRUE, hash |-> h] : h \in TxHashes}
             \cup {[accept |-> FALSE, err |-> e] : e \in SubmitErrors}

WalletAddress == "0xA11ce"
ContractAddress == "0xC0de"
Abi == {"balanceOf", "transfer"}
FunctionNames == Abi \cup {"mint"}
CallResult == [balanceOf |-> 1000, transfer |-> 1]

ToArgs == {None, Some(""), Some("0xB0b")}
ValueArgs == {0, 1000000}
HexStrings == {<<>>, <<"0", "x">>, <<"a", "1">>, <<"0", "x", "1">>}
DataArgs == {None} \cup {Some(h) : h \in HexStrings}
GasArgs == {0, 50000}
GasPriceArgs == {0, 30}
OptGasPriceArgs == {None} \cup {Some(p) : p \in GasPriceArgs}
NonceArgs == {0, 7}

-----------------------------------------------------------------------------
(* Conversions of the client library *)

HexDigits == <<"0", "1", "2", "3", "4", "5", "6", "7", "8", "9", "a", "b", "c", "d", "e", "f">>

HexValue(c) == (CHOOSE i \in 1..16 : HexDigits[i] = c) - 1

remove_0x_prefix(s) ==
    IF Len(s) >= 2 /\ s[1] = "0" /\ s[2] = "x" THEN SubSeq(s, 3, Len(s)) ELSE s

RECURSIVE unhexlify(_)
unhexlify(s) ==
    IF s = <<>> THEN <<>>
    ELSE <<16 * HexValue(s[1]) + HexValue(s[2])>> \o unhexlify(SubSeq(s, 3, Len(s)))

to_bytes(hexstr) ==
    LET body == remove_0x_prefix(hexstr)
        padded == IF Len(body) % 2 = 1 THEN <<"0">> \o body ELSE body
    IN unhexlify(padded)

RECURSIVE hexlify(_)
hexlify(b) ==
    IF b = <<>> THEN <<>>
    ELSE <<HexDigits[(b[1] \div 16) + 1], HexDigits[(b[1] % 16) + 1]>> \o hexlify(Tail(b))

to_hex(b) == <<"0", "x">> \o hexlify(b)

-----------------------------------------------------------------------------
(* Python truthiness, as used by `x or y` and `if x:` *)

TruthyInt(n) == n # 0
TruthyOptInt(o) == o # None /\ Val(o) # 0
TruthyOptStr(o) == o # None /\ Val(o) # ""
TruthyOptHex(o) == o # None /\ Val(o) # <<>>
TruthyOptDict(o) == o # None /\ DOMAIN Val(o) # {}

\* d[k] = v on a dict
SetItem(d, k, v) == [x \in (DOMAIN d) \cup {k} |-> IF x = k THEN v ELSE d[x]]

Return(v, calls) == [kind |-> "return", value |-> v, calls |-> calls, submitted |-> <<>>, rejected |-> None]
Raise(e, calls) == [kind |-> "raise", value |-> e, calls |-> calls, submitted |-> <<>>, rejected |-> None]

-----------------------------------------------------------------------------
(* Contract *)

\* build_tx with `if value:` dropped: 'value' is always stored
build_tx_value_always(from_address, to_address, value, data, gp, gas, nonce) ==
    LET tx0 == [chainId |-> chain_id,
                from |-> from_address,
                gasPrice |-> IF TruthyOptInt(gp) THEN Val(gp) ELSE gas_price,
                gas |-> IF TruthyInt(gas) THEN gas ELSE DefaultGas,
                nonce |-> IF TruthyInt(nonce) THEN nonce ELSE tx_count]
        tx1 == IF TruthyOptStr(to_address) THEN SetItem(tx0, "to", Val(to_address)) ELSE tx0
        tx2 == SetItem(tx1, "value", value)
        tx3 == IF TruthyOptHex(data) THEN SetItem(tx2, "data", to_bytes(Val(data))) ELSE tx2
    IN tx3

\* Contract.build_tx: the descriptor it returns
build_tx(from_address, to_address, value, data, gp, gas, nonce) ==
    LET tx0 == [chainId |-> chain_id,
                from |-> from_address,
                gasPrice |-> IF TruthyOptInt(gp) THEN Val(gp) ELSE gas_price,
                gas |-> IF TruthyInt(gas) THEN gas ELSE DefaultGas,
                nonce |-> IF TruthyInt(nonce) THEN nonce ELSE tx_count]
        tx1 == IF TruthyOptStr(to_address) THEN SetItem(tx0, "to", Val(to_address)) ELSE tx0
        tx2 == IF TruthyInt(value) THEN SetItem(tx1, "value", value) ELSE tx1
        tx3 == IF TruthyOptHex(data) THEN SetItem(tx2, "data", to_bytes(Val(data))) ELSE tx2
    IN tx3

\* build_tx asking the chain for the defaults before looking at the arguments
build_tx_calls_eager(gp, nonce) ==
    <<"chain_id", "gas_price", "get_transaction_count">>

\* Contract.build_tx: the client queries it makes, in evaluation order
build_tx_calls(gp, nonce) ==
    <<"chain_id">>
    \o (IF TruthyOptInt(gp) THEN <<>> ELSE <<"gas_price">>)
    \o (IF TruthyInt(nonce) THEN <<>> ELSE <<"get_transaction_count">>)

\* send_tx submitting a second time when the client rejects the first
send_tx_retry(tx, resp) ==
    [calls |-> IF resp.accept THEN <<"sign_transaction", "send_raw_transaction">>
               ELSE <<"sign_transaction", "send_raw_transaction", "send_raw_transaction">>,
     submitted |-> IF resp.accept THEN <<tx>> ELSE <<tx, tx>>,
     rejected |-> IF resp.accept THEN None ELSE Some(resp.err),
     kind |-> IF resp.accept THEN "return" ELSE "raise",
     value |-> IF resp.accept THEN to_hex(resp.hash) ELSE resp.err]

\* Contract.send_tx: sign, submit once, return the hash as hex or let the
\* client's error through.  resp is the client's answer to the submission.
send_tx(tx, resp) ==
    [calls |-> <<"sign_transaction", "send_raw_transaction">>,
     submitted |-> <<tx>>,
     rejected |-> IF resp.accept THEN None ELSE Some(resp.err),
     kind |-> IF resp.accept THEN "return" ELSE "raise",
     value |-> IF resp.accept THEN to_hex(resp.hash) ELSE resp.err]

\* Contract.build_call: getattr(self.contract.functions, function_name)(*args)
build_call(function_name) ==
    IF function_name \in Abi THEN Return(function_name, <<>>)
    ELSE Raise("UnknownFunction", <<>>)

\* ContractFunction.build_transaction(tx): a copy of tx with the call attached
fn_build_transaction(fn, tx) ==
    SetItem(SetItem(tx, "to", ContractAddress), "data", fn)

\* ContractFunction.call()
fn_call(fn) == Return(CallResult[fn], <<"call">>)

\* estimate_tx_gas masking the client's failure with a fallback value
estimate_tx_gas_fallback(tx) ==
    IF estimator.ok THEN Return(estimator.v, <<"estimate_gas">>)
    ELSE Return(2100000, <<"estimate_gas">>)

\* Contract.estimate_tx_gas
estimate_tx_gas(tx) ==
    IF estimator.ok THEN Return(estimator.v, <<"estimate_gas">>)
    ELSE Raise(estimator.err, <<"estimate_gas">>)

\* Contract.call
call(function_name) ==
    LET c == build_call(function_name)
    IN IF c.kind = "raise" THEN c ELSE fn_call(c.value)

\* call_by_tx building the descriptor before it resolves the function
call_by_tx_build_first(function_name, value, gas, resp) ==
    LET tx == build_tx(WalletAddress, None, value, None, None, gas, 0)
        c == build_call(function_name)
    IN IF c.kind = "raise" THEN [c EXCEPT !.calls = build_tx_calls(None, 0)]
       ELSE LET s == send_tx(fn_build_transaction(c.value, tx), resp)
            IN [s EXCEPT !.calls = build_tx_calls(None, 0) \o @]

\* Contract.call_by_tx
call_by_tx(function_name, value, gas, resp) ==
    LET c == build_call(function_name)
    IN IF c.kind = "raise" THEN c
       ELSE LET tx == build_tx(WalletAddress, None, value, None, None, gas, 0)
                s == send_tx(fn_build_transaction(c.value, tx), resp)
            IN [s EXCEPT !.calls = build_tx_calls(None, 0) \o @]

\* Contract.build_and_send_tx
build_and_send_tx(to_address, value, data, gp, gas, nonce, resp) ==
    LET s == send_tx(build_tx(WalletAddress, to_address, value, data, gp, gas, nonce), resp)
    IN [s EXCEPT !.calls = build_tx_calls(gp, nonce) \o @]

-----------------------------------------------------------------------------
(* Caller and Sender *)

\* The two assignments shared by Caller.estimate_gas_fee and
\* Sender.estimate_gas_fee: tx['gas'] = tx['gas'] or estimate_tx_gas(tx), then
\* tx['gasPrice'] = tx['gasPrice'] or w3.eth.gas_price.  tx is the descriptor
\* as the assignments leave it, also when the first one raises.
resolve_gas(tx) ==
    LET needGas == ~TruthyInt(tx["gas"])
        needPrice == ~TruthyInt(tx["gasPrice"])
        est == estimate_tx_gas(tx)
    IN IF needGas /\ est.kind = "raise"
       THEN [kind |-> "raise", value |-> est.value, calls |-> est.calls, tx |-> tx]
       ELSE LET t1 == IF needGas THEN [tx EXCEPT !["gas"] = est.value] ELSE tx
                t2 == IF needPrice THEN [t1 EXCEPT !["gasPrice"] = gas_price] ELSE t1
            IN [kind |-> "return", value |-> None, tx |-> t2,
                calls |-> (IF needGas THEN est.calls ELSE <<>>)
                          \o (IF needPrice THEN <<"gas_price">> ELSE <<>>)]

\* Caller.estimate_gas_fee on a Caller whose _tx is tx (an optional dict):
\* the outcome and the _tx it leaves
Caller_estimate_gas_fee(tx) ==
    IF tx = None THEN [out |-> Raise("TypeError", <<>>), tx |-> tx]
    ELSE LET r == resolve_gas(Val(tx))
         IN [out |-> IF r.kind = "raise" THEN Raise(r.value, r.calls)
                     ELSE Return(r.tx["gas"], r.calls),
             tx |-> Some(r.tx)]

\* Sender.estimate_gas_fee
Sender_estimate_gas_fee(tx) ==
    IF tx = None THEN [out |-> Raise("TypeError", <<>>), tx |-> tx]
    ELSE LET r == resolve_gas(Val(tx))
         IN [out |-> IF r.kind = "raise" THEN Raise(r.value, r.calls)
                     ELSE Return(r.tx["gas"] * r.tx["gasPrice"], r.calls),
             tx |-> Some(r.tx)]

\* Caller.send on a Caller whose _fn is fn and whose _tx is tx
Caller_send(fn, tx, resp) ==
    IF TruthyOptDict(tx)
    THEN LET e == IF ~TruthyInt(Val(tx)["gas"]) THEN Caller_estimate_gas_fee(tx)
                  ELSE [out |-> Return(None, <<>>), tx |-> tx]
         IN IF e.out.kind = "raise" THEN e
            ELSE IF fn = None THEN [out |-> Raise("AttributeError", e.out.calls), tx |-> e.tx]
            ELSE LET s == send_tx(fn_build_transaction(Val(fn), Val(e.tx)), resp)
                 IN [out |-> [s EXCEPT !.calls = e.out.calls \o @], tx |-> e.tx]
    ELSE IF fn = None THEN [out |-> Raise("AttributeError", <<>>), tx |-> tx]
    ELSE [out |-> fn_call(Val(fn)), tx |-> tx]

\* Sender.send returning None when nothing was built
Sender_send_silent(tx, resp) ==
    IF tx = None THEN [out |-> Return(None, <<>>), tx |-> tx]
    ELSE LET e == IF ~TruthyInt(Val(tx)["gas"]) THEN Sender_estimate_gas_fee(tx)
                  ELSE [out |-> Return(None, <<>>), tx |-> tx]
         IN IF e.out.kind = "raise" THEN e
            ELSE LET s == [calls |-> <<"sign_transaction", "send_raw_transaction">>,
                           submitted |-> <<Val(e.tx)>>,
                           rejected |-> IF resp.accept THEN None ELSE Some(resp.err),
                           kind |-> IF resp.accept THEN "return" ELSE "raise",
                           value |-> IF resp.accept THEN to_hex(resp.hash) ELSE resp.err]
                 IN [out |-> [s EXCEPT !.calls = e.out.calls \o @], tx |-> e.tx]

\* Sender.send on a Sender whose _tx is tx
Sender_send(tx, resp) ==
    IF tx = None THEN [out |-> Raise("TypeError", <<>>), tx |-> tx]
    ELSE LET e == IF ~TruthyInt(Val(tx)["gas"]) THEN Sender_estimate_gas_fee(tx)
                  ELSE [out |-> Return(None, <<>>), tx |-> tx]
         IN IF e.out.kind = "raise" THEN e
            ELSE LET s == send_tx(Val(e.tx), resp)
                 IN [out |-> [s EXCEPT !.calls = e.out.calls \o @], tx |-> e.tx]

-----------------------------------------------------------------------------
(* The state machine: a Contract, one builder (a Caller or a Sender) made   *)
(* with Caller(contract, wallet) or Sender(contract, wallet), and the chain *)

NoOp == [op |-> "init", fn |-> None, out |-> Return(None, <<>>)]

Init ==
    /\ chain_id \in ChainIds
    /\ gas_price \in GasPrices
    /\ tx_count \in TxCounts
    /\ estimator \in Estimators
    /\ builder \in {"Caller", "Sender"}
    /\ b_fn = None /\ b_tx = None
    /\ built = None /\ sent = FALSE
    /\ last = NoOp

Accepted(out) == IF out.submitted # <<>> /\ out.rejected = None THEN 1 ELSE 0

\* What a submission does to the chain: an accepted transaction is one more
\* transaction of the wallet's account
Submit(out) ==
    /\ tx_count + Accepted(out) <= MaxTxCount
    /\ tx_count' = tx_count + Accepted(out)
    /\ UNCHANGED <<chain_id, gas_price, estimator>>

\* The chain moves on: another suggested gas price, another estimator answer
ClientChange ==
    /\ gas_price' \in GasPrices
    /\ estimator' \in Estimators
    /\ <<gas_price', estimator'>> # <<gas_price, estimator>>
    /\ last' = [op |-> "client", fn |-> None, out |-> Return(None, <<>>)]
    /\ UNCHANGED <<chain_id, tx_count, builder>>
    /\ UNCHANGED pending

SenderBuild(to_address, value, data, gas, gp, nonce) ==
    /\ builder = "Sender"
    /\ b_tx' = Some(build_tx(WalletAddress, to_address, value, data, Some(gp), gas, nonce))
    /\ built' = Some([kind |-> "build", gas |-> gas, gas_price |-> gp])
    /\ sent' = FALSE
    /\ last' = [op |-> "Sender.build", fn |-> None,
                out |-> Return("self", build_tx_calls(Some(gp), nonce))]
    /\ UNCHANGED <<builder, b_fn>>
    /\ UNCHANGED chain

SenderEstimateGasFee ==
    LET r == Sender_estimate_gas_fee(b_tx)
    IN /\ builder = "Sender"
       /\ b_tx' = r.tx
       /\ last' = [op |-> "Sender.estimate_gas_fee", fn |-> None, out |-> r.out]
       /\ UNCHANGED <<builder, b_fn, built, sent>>
       /\ UNCHANGED chain

SenderSend(resp) ==
    LET r == Sender_send(b_tx, resp)
    IN /\ builder = "Sender"
       /\ b_tx' = r.tx
       /\ sent' = (sent \/ r.out.submitted # <<>>)
       /\ last' = [op |-> "Sender.send", fn |-> None, out |-> r.out]
       /\ Submit(r.out)
       /\ UNCHANGED <<builder, b_fn, built>>

CallerBuild(function_name) ==
    LET c == build_call(function_name)
        ok == c.kind = "return"
    IN /\ builder = "Caller"
       /\ b_fn' = IF ok THEN Some(c.value) ELSE b_fn
       /\ built' = IF ok THEN Some([kind |-> "build", gas |-> 0, gas_price |-> 0]) ELSE built
       /\ last' = [op |-> "Caller.build", fn |-> Some(function_name),
                   out |-> IF ok THEN Return("self", <<>>) ELSE c]
       /\ UNCHANGED <<builder, b_tx, sent>>
       /\ UNCHANGED chain

CallerBuildByTx(function_name, value, gas, gp, nonce) ==
    LET c == build_call(function_name)
        ok == c.kind = "return"
    IN /\ builder = "Caller"
       /\ b_fn' = IF ok THEN Some(c.value) ELSE b_fn
       /\ b_tx' = IF ok THEN Some(build_tx(WalletAddress, None, value, None, Some(gp), gas, nonce))
                  ELSE b_tx
       /\ built' = IF ok THEN Some([kind |-> "build_by_tx", gas |-> gas, gas_price |-> gp])
                   ELSE built
       /\ sent' = IF ok THEN FALSE ELSE sent
       /\ last' = [op |-> "Caller.build_by_tx", fn |-> Some(function_name),
                   out |-> IF ok THEN Return("self", build_tx_calls(Some(gp), nonce)) ELSE c]
       /\ UNCHANGED builder
       /\ UNCHANGED chain

CallerEstimateGasFee ==
    LET r == Caller_estimate_gas_fee(b_tx)
    IN /\ builder = "Caller"
       /\ b_tx' = r.tx
       /\ last' = [op |-> "Caller.estimate_gas_fee", fn |-> None, out |-> r.out]
       /\ UNCHANGED <<builder, b_fn, built, sent>>
       /\ UNCHANGED chain

CallerSend(resp) ==
    LET r == Caller_send(b_fn, b_tx, resp)
    IN /\ builder = "Caller"
       /\ b_tx' = r.tx
       /\ sent' = (sent \/ r.out.submitted # <<>>)
       /\ last' = [op |-> "Caller.send", fn |-> None, out |-> r.out]
       /\ Submit(r.out)
       /\ UNCHANGED <<builder, b_fn, built>>

Call(function_name) ==
    /\ last' = [op |-> "call", fn |-> Some(function_name), out |-> call(function_name)]
    /\ UNCHANGED builder
    /\ UNCHANGED chain
    /\ UNCHANGED pending

CallByTx(function_name, value, gas, resp) ==
    LET out == call_by_tx(function_name, value, gas, resp)
    IN /\ last' = [op |-> "call_by_tx", fn |-> Some(function_name), out |-> out]
       /\ Submit(out)
       /\ UNCHANGED builder
       /\ UNCHANGED pending

BuildAndSendTx(to_address, value, data, gp, gas, nonce, resp) ==
    LET out == build_and_send_tx(to_address, value, data, gp, gas, nonce, resp)
    IN /\ last' = [op |-> "build_and_send_tx", fn |-> None, out |-> out]
       /\ Submit(out)
       /\ UNCHANGED builder
       /\ UNCHANGED pending

Next ==
    \/ ClientChange
    \/ \E g \in GasArgs, p \in GasPriceArgs, n \in NonceArgs :
          SenderBuild(Some("0xB0b"), 1000000, None, g, p, n)
    \/ SenderEstimateGasFee
    \/ \E r \in Responses : SenderSend(r)
    \/ \E f \in FunctionNames : CallerBuild(f)
    \/ \E f \in FunctionNames, g \in GasArgs, p \in GasPriceArgs, n \in NonceArgs :
          CallerBuildByTx(f, 0, g, p, n)
    \/ CallerEstimateGasFee
    \/ \E r \in Responses : CallerSend(r)
    \/ \E f \in FunctionNames : Call(f)
    \/ \E f \in FunctionNames, r \in Responses : CallByTx(f, 0, 0, r)
    \/ \E r \in Responses :
          BuildAndSendTx(Some("0xB0b"), 1000000, None, None, 0, 0, r)

Spec == Init /\ [][Next]_vars

-----------------------------------------------------------------------------
(* Contract.build_tx and Contract.estimate_tx_gas called directly, over the *)
(* whole of their argument sets                                             *)

BuildTx(to_address, value, data, gp, gas, nonce) ==
    /\ last' = [op |-> "build_tx", fn |-> None,
                args |-> [from_address |-> WalletAddress,
                          to_address |-> to_address, value |-> value, data |-> data,
                          gas_price |-> gp, gas |-> gas, nonce |-> nonce],
                out |-> Return(build_tx(WalletAddress, to_address, value, data, gp, gas, nonce),
                               build_tx_calls(gp, nonce))]
    /\ UNCHANGED builder
    /\ UNCHANGED chain
    /\ UNCHANGED pending

EstimateTxGas(value, gas) ==
    /\ last' = [op |-> "estimate_tx_gas", fn |-> None,
                out |-> estimate_tx_gas(build_tx(WalletAddress, Some("0xB0b"), value, None, None, gas, 0))]
    /\ UNCHANGED builder
    /\ UNCHANGED chain
    /\ UNCHANGED pending

NextBuildTx ==
    \/ ClientChange
    \/ \E t \in ToArgs, v \in ValueArgs, d \in DataArgs, p \in OptGasPriceArgs,
          g \in GasArgs, n \in NonceArgs : BuildTx(t, v, d, p, g, n)
    \/ \E v \in ValueArgs, g \in GasArgs : EstimateTxGas(v, g)

SpecBuildTx == Init /\ [][NextBuildTx]_vars

-----------------------------------------------------------------------------
(* Properties of Contract.build_tx and Contract.estimate_tx_gas, checked    *)
(* under SpecBuildTx                                                        *)

Count(seq, x) == Cardinality({i \in DOMAIN seq : seq[i] = x})
Has(d, k) == k \in DOMAIN d

\* C3, as claimed: in the descriptor build_tx returns, 'to' is present iff
\* to_address is not None, 'value' iff value is non-zero, 'data' iff data is
\* not None; a present 'to' and 'value' equal the arguments and a present
\* 'data' is the byte conversion of the hex string.
C3_AsClaimed ==
    last.op = "build_tx" =>
        LET a == last.args
            t == last.out.value
        IN /\ Has(t, "to") <=> a.to_address # None
           /\ Has(t, "value") <=> a.value # 0
           /\ Has(t, "data") <=> a.data # None
           /\ Has(t, "to") => t["to"] = Val(a.to_address)
           /\ Has(t, "value") => t["value"] = a.value
           /\ Has(t, "data") => t["data"] = to_bytes(Val(a.data))

\* C3, amended: 'to' is present iff to_address is neither None nor the empty
\* string, 'value' iff value is non-zero, 'data' iff data is neither None nor
\* the empty string; a present 'to' and 'value' equal the arguments and a
\* present 'data' is the byte conversion of the hex string.
C3_OptionalKeys ==
    last.op = "build_tx" =>
        LET a == last.args
            t == last.out.value
        IN /\ Has(t, "to") <=> (a.to_address # None /\ a.to_address # Some(""))
           /\ Has(t, "value") <=> a.value # 0
           /\ Has(t, "data") <=> (a.data # None /\ a.data # Some(<<>>))
           /\ Has(t, "to") => t["to"] = Val(a.to_address)
           /\ Has(t, "value") => t["value"] = a.value
           /\ Has(t, "data") => t["data"] = to_bytes(Val(a.data))

C3_Witness ==
    /\ last.op = "build_tx"
    /\ last.args.to_address = None /\ ~Has(last.out.value, "to")
    /\ last.args.value = 1000000 /\ last.out.value["value"] = 1000000
    /\ last.args.data = Some(<<"0", "x", "1">>) /\ last.out.value["data"] = <<1>>

\* C4, as claimed: the descriptor always has chainId, from, gasPrice, gas and
\* nonce; gasPrice is the gas_price argument when it is not None and the
\* chain's suggested price otherwise; nonce is the nonce argument when it is
\* non-zero and the account's transaction count otherwise; the chain is asked
\* for the gas price or the count only when the argument is not supplied.
C4_AsClaimed ==
    last.op = "build_tx" =>
        LET a == last.args
            t == last.out.value
            c == last.out.calls
        IN /\ {"chainId", "from", "gasPrice", "gas", "nonce"} \subseteq DOMAIN t
           /\ t["chainId"] = chain_id
           /\ t["from"] = a.from_address
           /\ t["gasPrice"] = IF a.gas_price # None THEN Val(a.gas_price) ELSE gas_price
           /\ t["nonce"] = IF a.nonce # 0 THEN a.nonce ELSE tx_count
           /\ Count(c, "gas_price") > 0 => a.gas_price = None
           /\ Count(c, "get_transaction_count") > 0 => a.nonce = 0

\* C4, amended: as claimed, but a gas_price argument of 0 is treated as not
\* supplied, like a nonce of 0: gasPrice is the gas_price argument when it is
\* neither None nor 0 and the chain's suggested price otherwise, and the chain
\* is asked for the gas price only when the argument is None or 0.
C4_RequiredKeys ==
    last.op = "build_tx" =>
        LET a == last.args
            t == last.out.value
            c == last.out.calls
            priceSupplied == a.gas_price # None /\ a.gas_price # Some(0)
        IN /\ {"chainId", "from", "gasPrice", "gas", "nonce"} \subseteq DOMAIN t
           /\ t["chainId"] = chain_id
           /\ t["from"] = a.from_address
           /\ t["gasPrice"] = IF priceSupplied THEN Val(a.gas_price) ELSE gas_price
           /\ t["nonce"] = IF a.nonce # 0 THEN a.nonce ELSE tx_count
           /\ Count(c, "gas_price") > 0 => ~priceSupplied
           /\ Count(c, "get_transaction_count") > 0 => a.nonce = 0

C4_Witness ==
    /\ last.op = "build_tx"
    /\ last.args.gas_price = Some(0) /\ gas_price = 20 /\ last.out.value["gasPrice"] = 20
    /\ last.args.nonce = 0 /\ tx_count = 1 /\ last.out.value["nonce"] = 1
    /\ last.out.calls = <<"chain_id", "gas_price", "get_transaction_count">>

\* C5: build_tx never asks the client for a gas estimate, whether the
\* estimator would succeed or fail; with gas = 0 the descriptor's gas is
\* 210000 and otherwise the caller's value; estimate_tx_gas returns the
\* client's estimate when there is one and otherwise raises the client's
\* error, never returning 2100000 in its place.
C5_FixedDefaultGas ==
    /\ last.op = "build_tx" =>
          /\ Count(last.out.calls, "estimate_gas") = 0
          /\ last.out.kind = "return"
          /\ last.out.value["gas"] = IF last.args.gas = 0 THEN 210000 ELSE last.args.gas
    /\ last.op = "estimate_tx_gas" =>
          IF estimator.ok
          THEN last.out.kind = "return" /\ last.out.value = estimator.v
          ELSE last.out.kind = "raise" /\ last.out.value = estimator.err

C5_Witness ==
    /\ last.op = "estimate_tx_gas"
    /\ ~estimator.ok
    /\ last.out.kind = "raise" /\ last.out.value \in ClientErrors

-----------------------------------------------------------------------------
(* Properties of the builders and of sending, checked under Spec            *)

SendOps == {"Sender.send", "Caller.send"}
EstimateOps == {"Sender.estimate_gas_fee", "Caller.estimate_gas_fee"}

\* The build call that makes a descriptor on the constructed builder
TxBuildKind == IF builder = "Sender" THEN "build" ELSE "build_by_tx"

\* C1: when the builder's descriptor was built with gas = 0 and gas_price = 0
\* and the client can estimate, the descriptor send() submits has gas equal to
\* the client's estimate and gasPrice equal to the chain's suggested price
\* (with gas_price 20 and an estimate of 21000: gas = 21000, gasPrice = 20).
C1_LazyGasOnSend ==
    ( /\ last.op \in SendOps
      /\ last.out.submitted # <<>>
      /\ built = Some([kind |-> TxBuildKind, gas |-> 0, gas_price |-> 0])
      /\ estimator.ok )
    => /\ last.out.submitted[1]["gas"] = estimator.v
       /\ last.out.submitted[1]["gasPrice"] = gas_price

\* C2: estimate_gas_fee submits nothing; on a Caller it returns the gas left
\* in the descriptor, on a Sender gas times gasPrice of the descriptor; a send
\* that follows submits that gas and gasPrice; and on a Sender built with
\* gas = 0, with gas_price 20 and an estimate of 21000, it returns 420000.
C2_EstimateGasFee ==
    [][ /\ (last'.op \in EstimateOps /\ last'.out.kind = "return") =>
              /\ last'.out.submitted = <<>>
              /\ Count(last'.out.calls, "send_raw_transaction") = 0
              /\ last'.op = "Caller.estimate_gas_fee" => last'.out.value = Val(b_tx')["gas"]
              /\ last'.op = "Sender.estimate_gas_fee" =>
                    last'.out.value = Val(b_tx')["gas"] * Val(b_tx')["gasPrice"]
              /\ ( /\ last'.op = "Sender.estimate_gas_fee"
                   /\ Val(built).gas = 0
                   /\ gas_price = 20
                   /\ estimator = [ok |-> TRUE, v |-> 21000] )
                 => last'.out.value = 420000
        /\ ( /\ last.op \in EstimateOps /\ last.out.kind = "return"
             /\ last'.op \in SendOps /\ last'.out.submitted # <<>> )
           => /\ last'.out.submitted[1]["gas"] = Val(b_tx)["gas"]
              /\ last'.out.submitted[1]["gasPrice"] = Val(b_tx)["gasPrice"]
      ]_vars

\* C6: Caller.send dispatches the operation of the most recent build call: a
\* read-only call of the pending function, with nothing signed or submitted,
\* when that call was build; a signed transaction for the pending function
\* with the pending descriptor when it was build_by_tx.
C6_LastBuildWins ==
    (last.op = "Caller.send" /\ built # None) =>
        IF Val(built).kind = "build"
        THEN /\ last.out.submitted = <<>>
             /\ last.out.calls = <<"call">>
             /\ last.out.kind = "return"
        ELSE last.out.submitted = <<fn_build_transaction(Val(b_fn), Val(b_tx))>>

\* C7: no descriptor is submitted twice: a send() that submits a transaction
\* carries a descriptor that no earlier send() has submitted.
C7_NoDescriptorReuse ==
    [][ (last'.op \in SendOps /\ last'.out.submitted # <<>>) => ~sent ]_vars

\* C8: an operation signs at most once and hands at most one raw transaction
\* to the client, one per signature; when the client rejects it the operation
\* raises the client's error as it is, returns no hash, has submitted exactly
\* once, and leaves the builder's function and descriptor and the account's
\* transaction count as they were.
C8_NoRetry ==
    [][ LET o == last'.out
        IN /\ Count(o.calls, "sign_transaction") <= 1
           /\ Count(o.calls, "send_raw_transaction") = Count(o.calls, "sign_transaction")
           /\ Len(o.submitted) = Count(o.calls, "send_raw_transaction")
           /\ o.rejected # None =>
                 /\ o.kind = "raise"
                 /\ o.value = Val(o.rejected)
                 /\ Len(o.submitted) = 1
                 /\ b_fn' = b_fn /\ b_tx' = b_tx
                 /\ tx_count' = tx_count
      ]_vars

C8_Witness ==
    /\ last.op \in SendOps
    /\ last.out.rejected = Some("nonce too low")
    /\ last.out.kind = "raise"
    /\ Len(last.out.submitted) = 1

\* C9: an operation given a function name that is not in the ABI raises
\* UnknownFunction without any client call (no read-only call, no chain-id,
\* gas-price or transaction-count query, no signature, no submission), and
\* leaves the builder's function and descriptor as they were.
C9_UnknownFunctionFirst ==
    [][ (last'.fn # None /\ Val(last'.fn) \notin Abi) =>
           /\ last'.out.kind = "raise"
           /\ last'.out.value = "UnknownFunction"
           /\ last'.out.calls = <<>>
           /\ last'.out.submitted = <<>>
           /\ b_fn' = b_fn /\ b_tx' = b_tx
           /\ tx_count' = tx_count
      ]_vars

C9_Witness ==
    /\ last.op = "Caller.build_by_tx"
    /\ last.fn = Some("mint")
    /\ last.out.kind = "raise"
    /\ b_fn = Some("transfer") /\ b_tx # None

\* C10: estimate_gas_fee and Sender.send on a builder that has no descriptor,
\* and send on a Caller on which nothing was built, raise an error without any
\* client call (no estimation, no gas-price query, no signature, no
\* submission) and leave the builder without a descriptor, its function as it
\* was.
C10_BuildBeforeDispatch ==
    [][ ( \/ b_tx = None /\ last'.op \in (EstimateOps \cup {"Sender.send"})
          \/ b_tx = None /\ b_fn = None /\ last'.op = "Caller.send" )
        => /\ last'.out.kind = "raise"
           /\ last'.out.calls = <<>>
           /\ last'.out.submitted = <<>>
           /\ b_tx' = None /\ b_fn' = b_fn
      ]_vars

C10_Witness ==
    /\ last.op = "Sender.send"
    /\ b_tx = None
    /\ last.out.kind = "raise" /\ last.out.calls = <<>>

====
